---- MODULE Spec2Model ----
(***************************************************************************)
(* LaserTagger model function (lasertagger/run_lasertagger_utils.py):      *)
(* ModelFnBuilder.__init__, ModelFnBuilder._create_model, the model_fn     *)
(* closure returned by ModelFnBuilder.build, _get_decoder_params and       *)
(* _update_loss_with_weight.                                               *)
(*                                                                         *)
(* Tensors are sequences: a [batch, seq] tensor is a sequence of rows, a   *)
(* [batch, seq, vocab] tensor a sequence of rows of vocabulary vectors.    *)
(* float32 values are exact rationals [n, d] extended with the IEEE        *)
(* specials (d = 0: n = 1 is +inf, n = -1 is -inf, n = 0 is NaN);          *)
(* float32 rounding is not modelled.  The BERT encoder, the Transformer    *)
(* decoder, the dense projection and the softmax cross-entropy are         *)
(* external: what they return in a call is an input of that call.          *)
(***************************************************************************)
EXTENDS Integers, Sequences, FiniteSets, TLC

VARIABLES
  ctor_args,    \* the arguments ModelFnBuilder.__init__ was called with
  builder,      \* the fields of the ModelFnBuilder instance
  batch_size,   \* the static batch dimension of the input pipeline
  mode,         \* the mode of the model_fn call that built the graph
  features,     \* the features dict of that call
  external,     \* what the external ops returned in that call
  graph,        \* the tensors _create_model / model_fn built in that call
  output_spec,  \* the TPUEstimatorSpec model_fn returned
  BASE_PARAMS,  \* official_transformer.model_params.BASE_PARAMS (module global)
  returned      \* results of direct _get_decoder_params calls, oldest first

vars == <<ctor_args, builder, batch_size, mode, features, external, graph,
          output_spec, BASE_PARAMS, returned>>

---------------------------------------------------------------------------
(* Python None / an absent value, and a present one.                       *)
None == <<>>
Some(x) == <<x>>
Get(o) == o[1]

(* tf.estimator.ModeKeys                                                   *)
TRAIN == "train"
EVAL == "eval"
PREDICT == "infer"
NoCall == "no model_fn call yet"

---------------------------------------------------------------------------
(* float32 arithmetic on extended rationals.                               *)
Abs(x) == IF x < 0 THEN -x ELSE x
Sign(x) == IF x > 0 THEN 1 ELSE IF x < 0 THEN -1 ELSE 0

RECURSIVE GCD(_, _)
GCD(a, b) == IF b = 0 THEN a ELSE GCD(b, a % b)

Float(n, d) ==
  IF d = 0 THEN [n |-> Sign(n), d |-> 0]
  ELSE LET g == GCD(Abs(n), Abs(d))
       IN  [n |-> (Sign(d) * n) \div g, d |-> Abs(d) \div g]

(* tf.cast(int, tf.float32) and tf.constant(int, dtype="float32")          *)
Cast(i) == Float(i, 1)

(* tf.math.multiply / tf.math.scalar_mul on one element                    *)
Mul(x, y) == Float(x.n * y.n, x.d * y.d)

(* tf.math.add on one element; inf + inf = inf, inf + -inf = NaN           *)
Add(x, y) ==
  IF x.d = 0 /\ y.d = 0
  THEN (IF x.n = y.n THEN x ELSE Float(0, 0))
  ELSE Float(x.n * y.d + y.n * x.d, x.d * y.d)

(* 1 / y; 1 / 0 = +inf, 1 / inf = 0, 1 / NaN = NaN                         *)
Recip(y) ==
  IF y.n = 0 THEN Float(y.d, 0) ELSE Float(Sign(y.n) * y.d, Abs(y.n))

(* tf.math.divide / tf.truediv on one element; x / 0 is +-inf or NaN       *)
Div(x, y) == Mul(x, Recip(y))

(* tf.reduce_sum over one axis                                             *)
RECURSIVE ReduceSum(_)
ReduceSum(xs) ==
  IF xs = <<>> THEN Cast(0) ELSE Add(xs[1], ReduceSum(Tail(xs)))

(* tf.reduce_mean over a vector                                            *)
ReduceMean(xs) == Div(ReduceSum(xs), Cast(Len(xs)))

(* tf.argmax over the last axis: index (from 0) of the first maximum       *)
ArgMax(row) ==
  CHOOSE i \in 0..(Len(row) - 1) :
    /\ \A j \in 0..(Len(row) - 1) : row[j + 1] <= row[i + 1]
    /\ \A j \in 0..(i - 1) : row[j + 1] < row[i + 1]

(* Elementwise maps over [batch, seq] tensors.                             *)
Map1(t, F(_)) == [b \in DOMAIN t |-> [s \in DOMAIN t[b] |-> F(t[b][s])]]
Map2(t, u, F(_, _)) ==
  [b \in DOMAIN t |-> [s \in DOMAIN t[b] |-> F(t[b][s], u[b][s])]]

---------------------------------------------------------------------------
(* Program constants.                                                      *)

(* The Transformer decoder reserves ids 0 and 1 for begin and end.         *)
DecoderOffset == 2
(* A weight of 1 leaves the loss unchanged.                                *)
NeutralWeight == 1
(* extra_decode_length is pinned to 0.                                     *)
ExtraDecodeLength == 0

---------------------------------------------------------------------------
(* ModelFnBuilder.__init__                                                 *)

RECURSIVE SortSet(_)
SortSet(S) ==
  IF S = {} THEN <<>>
  ELSE LET m == CHOOSE x \in S : \A y \in S : x <= y
       IN  <<m>> \o SortSet(S \ {m})

(* np.unique(np.array(ids) + 2): sorted, duplicates removed                *)
UniqueShifted(ids) ==
  SortSet({ids[i] + DecoderOffset : i \in DOMAIN ids})

(* A Python list and a numpy array holding the same items: the two kinds   *)
(* of value the delete_tags argument can be.                               *)
PyList(items) == [type |-> "list", items |-> items]
NdArray(items) == [type |-> "ndarray", items |-> items]

(* A raised exception, as the value of the expression that raised it.      *)
TypeError == "TypeError: list indices must be integers or slices, not tuple"
Raise(exception) == [raised |-> exception]
Raises(record) == "raised" \in DOMAIN record

(* np.insert(delete_tags, 0, [0, 0], axis=0): an ndarray, whatever the     *)
(* kind of its argument.                                                   *)
InsertPadding(delete_tags) == NdArray(<<0, 0>> \o delete_tags.items)

(* A variant that replaces a negative weight by 0.                         *)
ModelFnBuilder_ClampingWeights(a) ==
  LET w(j) == IF a.relative_loss_weight[j] < 0 THEN 0
              ELSE a.relative_loss_weight[j]
  IN  [config |-> a.config,
       num_tags |-> a.num_tags,
       init_checkpoint |-> a.init_checkpoint,
       use_tpu |-> a.use_tpu,
       max_seq_length |-> a.max_seq_length,
       verb_deletion_loss_weight |-> a.verb_deletion_loss_weight,
       verb_tags |-> a.verb_tags,
       delete_tags |->
         IF a.config.use_t2t_decoder THEN InsertPadding(a.delete_tags)
                                     ELSE a.delete_tags,
       smallest_add_tags_ids |->
         IF a.config.use_t2t_decoder THEN a.smallest_add_tag + DecoderOffset
                                     ELSE a.smallest_add_tag,
       delete_tags_ids |->
         IF a.config.use_t2t_decoder THEN UniqueShifted(a.delete_tags_ids)
                                     ELSE a.delete_tags_ids,
       keep_tags_ids |->
         IF a.config.use_t2t_decoder THEN UniqueShifted(a.keep_tags_ids)
                                     ELSE a.keep_tags_ids,
       add_weight |-> w(1),
       keep_weight |-> w(2),
       delete_weight |-> w(3)]

ModelFnBuilder(a) ==
  [config |-> a.config,
   num_tags |-> a.num_tags,
   init_checkpoint |-> a.init_checkpoint,
   use_tpu |-> a.use_tpu,
   max_seq_length |-> a.max_seq_length,
   verb_deletion_loss_weight |-> a.verb_deletion_loss_weight,
   verb_tags |-> a.verb_tags,
   delete_tags |->
     IF a.config.use_t2t_decoder THEN InsertPadding(a.delete_tags)
                                 ELSE a.delete_tags,
   smallest_add_tags_ids |->
     IF a.config.use_t2t_decoder THEN a.smallest_add_tag + DecoderOffset
                                 ELSE a.smallest_add_tag,
   delete_tags_ids |->
     IF a.config.use_t2t_decoder THEN UniqueShifted(a.delete_tags_ids)
                                 ELSE a.delete_tags_ids,
   keep_tags_ids |->
     IF a.config.use_t2t_decoder THEN UniqueShifted(a.keep_tags_ids)
                                 ELSE a.keep_tags_ids,
   add_weight |-> a.relative_loss_weight[1],
   keep_weight |-> a.relative_loss_weight[2],
   delete_weight |-> a.relative_loss_weight[3]]

---------------------------------------------------------------------------
(* _update_loss_with_weight                                                *)

(* A variant that tests membership instead of counting the entries.        *)
FilterLabelMask_Membership(filter_labels, label) ==
  Cast(IF \E i \in DOMAIN filter_labels : filter_labels[i] = label
       THEN 1 ELSE 0)

(* The loop over filter_labels: the sum of the equality indicators.        *)
RECURSIVE FilterLabelMask(_, _)
FilterLabelMask(filter_labels, label) ==
  IF filter_labels = <<>> THEN Cast(0)
  ELSE Add(Cast(IF filter_labels[Len(filter_labels)] = label THEN 1 ELSE 0),
           FilterLabelMask(SubSeq(filter_labels, 1, Len(filter_labels) - 1),
                           label))

(* loss * (1 + (weight - 1) * mask) on one element                         *)
Reweight(l, weight, mask) ==
  Mul(l, Add(Cast(1), Mul(Cast(weight - 1), mask)))

(* A variant without the test for weight 1 that scales by weight instead   *)
(* of weight - 1.                                                          *)
UpdateLossWithWeight_NoShortCut(loss, weight, filter_labels, labels) ==
  LET W(l, label) ==
        Mul(l, Add(Cast(1),
                   Mul(Cast(weight), FilterLabelMask(filter_labels, label))))
  IN  Map2(loss, labels, W)

UpdateLossWithWeight(loss, weight, filter_labels, labels) ==
  IF weight = NeutralWeight THEN loss
  ELSE LET W(l, label) ==
             Reweight(l, weight, FilterLabelMask(filter_labels, label))
       IN  Map2(loss, labels, W)

---------------------------------------------------------------------------
(* _get_decoder_params                                                     *)

(* params.update(...) on the dictionary it is applied to.                  *)
ParamsUpdate(params, config, use_tpu, max_seq_length, output_vocab_size) ==
  [params EXCEPT
     !.num_hidden_layers = config.decoder_num_hidden_layers,
     !.hidden_size = config.decoder_hidden_size,
     !.num_heads = config.decoder_num_attention_heads,
     !.filter_size = config.decoder_filter_size,
     !.vocab_size = output_vocab_size,
     !.use_tpu = use_tpu,
     !.max_length = max_seq_length,
     !.extra_decode_length = ExtraDecodeLength]

(* params = model_params.BASE_PARAMS binds the module-level dictionary     *)
(* itself: the update is made in place and the object returned is that     *)
(* dictionary.  A returned value is the name of the object it refers to.   *)
BaseParamsRef == "model_params.BASE_PARAMS"

(* The dictionary a returned reference denotes in the current state.       *)
Deref(ref) == BASE_PARAMS

GetDecoderParams(config, use_tpu, max_seq_length, output_vocab_size) ==
  [base_params |-> ParamsUpdate(BASE_PARAMS, config, use_tpu, max_seq_length,
                                output_vocab_size),
   result |-> BaseParamsRef]

---------------------------------------------------------------------------
(* ModelFnBuilder._create_model, the "loss" scope                          *)

(* The loop over self._verb_tags: the sum of the equality indicators.      *)
RECURSIVE VerbMask(_, _)
VerbMask(verb_tags, segment_id) ==
  IF verb_tags = <<>> THEN Cast(0)
  ELSE Add(Cast(IF verb_tags[Len(verb_tags)] = segment_id THEN 1 ELSE 0),
           VerbMask(SubSeq(verb_tags, 1, Len(verb_tags) - 1), segment_id))

(* delete_tags[np.newaxis, :]: a tuple index, which an ndarray accepts and *)
(* a Python list rejects with TypeError.                                   *)
AcceptsTupleIndex(delete_tags) == delete_tags.type = "ndarray"

NewAxis(delete_tags) ==
  IF AcceptsTupleIndex(delete_tags) THEN delete_tags.items
  ELSE Raise(TypeError)

(* sum(delete_tags * logits) / sum(logits) over the vocabulary axis        *)
DeleteProbability(delete_tags, row) ==
  IF ~AcceptsTupleIndex(delete_tags) THEN NewAxis(delete_tags)
  ELSE Div(ReduceSum([v \in DOMAIN row |->
                        Mul(Cast(NewAxis(delete_tags)[v]), Cast(row[v]))]),
           ReduceSum([v \in DOMAIN row |-> Cast(row[v])]))

VerbDeletionEnabled(b) ==
  b.verb_tags # None /\ b.verb_deletion_loss_weight # 0

(* loss * (1 + verb_deletion_loss_weight * delete_probability * verb_mask) *)
(* or the exception of the delete_tags indexing.                           *)
VerbDeletionStep(b, loss, logits, segment_ids) ==
  IF ~VerbDeletionEnabled(b) THEN loss
  ELSE IF ~AcceptsTupleIndex(b.delete_tags) THEN NewAxis(b.delete_tags)
  ELSE [i \in DOMAIN loss |-> [s \in DOMAIN loss[i] |->
         LET delete_loss ==
               Mul(Cast(b.verb_deletion_loss_weight),
                   Mul(DeleteProbability(b.delete_tags, logits[i][s]),
                       VerbMask(Get(b.verb_tags), segment_ids[i][s])))
         IN  Mul(loss[i][s], Add(Cast(1), delete_loss))]]

(* A variant with the comparison the other way round.                      *)
AddLabelMask_Reversed(smallest_add_tags_ids, label) ==
  Cast(IF label >= smallest_add_tags_ids THEN 1 ELSE 0)

(* tf.math.greater_equal(smallest_add_tags_ids, labels) cast to float      *)
AddLabelMask(smallest_add_tags_ids, label) ==
  Cast(IF smallest_add_tags_ids >= label THEN 1 ELSE 0)

AddWeightStep(b, loss, labels) ==
  IF b.add_weight # NeutralWeight
  THEN LET W(l, label) ==
             Reweight(l, b.add_weight,
                      AddLabelMask(b.smallest_add_tags_ids, label))
       IN  Map2(loss, labels, W)
  ELSE loss

(* A variant that sums the loss of the valid positions only.               *)
PerExampleLoss_MaskedSum(loss, labels_mask) ==
  [i \in DOMAIN loss |->
     Div(ReduceSum([s \in DOMAIN loss[i] |->
                      Mul(loss[i][s], labels_mask[i][s])]),
         ReduceSum(labels_mask[i]))]

(* tf.reduce_sum(loss, axis=1) / tf.reduce_sum(labels_mask, axis=1)        *)
PerExampleLoss(loss, labels_mask) ==
  [i \in DOMAIN loss |-> Div(ReduceSum(loss[i]), ReduceSum(labels_mask[i]))]

(* A variant that reports the decoded ids as they are.                     *)
DecodedPredictions_NotShifted(outputs) == outputs

(* pred = logits["outputs"]; pred -= 2                                     *)
DecodedPredictions(outputs) == Map1(outputs, LAMBDA d : d - DecoderOffset)

Predictions(logits) == Map1(logits, ArgMax)

(* The tensors of the loss scope when mode != PREDICT; when the verb       *)
(* deletion step raises, the tensors built before it and the exception.    *)
LossScope(b, logits, cross_entropy, segment_ids, labels, labels_mask) ==
  LET base        == Map1(cross_entropy, Cast)
      after_verb  == VerbDeletionStep(b, base, logits, segment_ids)
      after_add   == AddWeightStep(b, after_verb, labels)
      after_keep  == UpdateLossWithWeight(after_add, b.keep_weight,
                                          b.keep_tags_ids, labels)
      after_del   == UpdateLossWithWeight(after_keep, b.delete_weight,
                                          b.delete_tags_ids, labels)
      per_example == PerExampleLoss(after_del, labels_mask)
  IN  IF VerbDeletionEnabled(b) /\ ~AcceptsTupleIndex(b.delete_tags)
      THEN [labels |-> labels, base |-> base, raised |-> TypeError]
      ELSE
      [labels |-> labels, base |-> base, after_verb |-> after_verb, after_add |-> after_add,
       after_keep |-> after_keep, after_delete |-> after_del,
       per_example_loss |-> per_example, loss |-> ReduceMean(per_example)]

(* ModelFnBuilder._create_model.  ext holds what the decoder (or the dense *)
(* projection) and the cross-entropy op return in this call.               *)
CreateModel(b, m, segment_ids, labels, labels_mask, ext) ==
  LET is_training == (m = TRAIN)
      use_decoder == b.config.use_t2t_decoder
      params == GetDecoderParams(b.config, b.use_tpu, b.max_seq_length,
                                 b.num_tags + DecoderOffset)
      scope == LossScope(b, Get(ext.logits), Get(ext.cross_entropy),
                         segment_ids, Get(labels), Get(labels_mask))
      raised == m # PREDICT /\ Raises(scope)
  IN  [is_training |-> is_training,
       raised |-> IF raised THEN Some(scope.raised) ELSE None,
       base_params |-> IF use_decoder THEN params.base_params ELSE BASE_PARAMS,
       decoder |-> IF use_decoder
                   THEN Some([params |-> params.result,
                              is_training |-> is_training,
                              targets |-> labels])
                   ELSE None,
       dropout |-> (~use_decoder /\ is_training),
       loss_scope |-> IF m # PREDICT THEN Some(scope) ELSE None,
       loss |-> IF m # PREDICT /\ ~raised THEN Some(scope.loss) ELSE None,
       per_example_loss |->
         IF m # PREDICT /\ ~raised THEN Some(scope.per_example_loss)
         ELSE None,
       pred |-> IF raised THEN None
                ELSE IF m # PREDICT THEN Predictions(Get(ext.logits))
                ELSE IF use_decoder
                     THEN DecodedPredictions(Get(ext.outputs))
                     ELSE Predictions(Get(ext.logits))]

---------------------------------------------------------------------------
(* The model_fn closure returned by ModelFnBuilder.build                   *)

(* A variant that compares every position, masked or not.                  *)
Accuracy_IgnoringMask(labels, labels_mask, predictions) ==
  [i \in DOMAIN labels |->
     IF \A s \in DOMAIN labels[i] : labels[i][s] = predictions[i][s]
     THEN Cast(1) ELSE Cast(0)]

(* metric_fn: reduce_all(equal(labels, predictions) | ~bool(labels_mask))  *)
Accuracy(labels, labels_mask, predictions) ==
  [i \in DOMAIN labels |->
     IF \A s \in DOMAIN labels[i] :
          labels[i][s] = predictions[i][s] \/ ~(labels_mask[i][s].n # 0)
     THEN Cast(1) ELSE Cast(0)]

MetricFn(per_example_loss, labels, labels_mask, predictions) ==
  [accuracy |-> Accuracy(labels, labels_mask, predictions),
   sentence_level_acc |->
     ReduceMean(Accuracy(labels, labels_mask, predictions)),
   eval_loss |-> ReduceMean(per_example_loss)]

(* The labels and labels_mask model_fn hands to _create_model.             *)
ShiftLabels(b, raw) ==
  IF b.config.use_t2t_decoder
  THEN Map1(raw, LAMBDA t : t + DecoderOffset)
  ELSE raw

(* A variant that reads the labels in every mode.                          *)
ModelLabels_AlwaysRead(b, m, f) == Some(ShiftLabels(b, f.labels))

ModelLabels(b, m, f) ==
  IF m # PREDICT THEN Some(ShiftLabels(b, f.labels)) ELSE None

ModelLabelsMask(m, f) ==
  IF m # PREDICT THEN Some(Map1(f.labels_mask, Cast)) ELSE None

(* if self._init_checkpoint: Python truthiness of None or a string.        *)
Truthy(init_checkpoint) ==
  init_checkpoint # None /\ Get(init_checkpoint) # ""

(* The TPUEstimatorSpec built for the mode; an argument not passed is None.*)
OutputSpec(b, m, cm, labels, labels_mask) ==
  LET scaffold_fn == IF Truthy(b.init_checkpoint) /\ b.use_tpu
                     THEN Some("tpu_scaffold") ELSE None
      absent == [mode |-> m, loss |-> None, train_op |-> None,
                 eval_metrics |-> None, predictions |-> None,
                 scaffold_fn |-> scaffold_fn]
  IN  IF m = TRAIN
      THEN [absent EXCEPT !.loss = cm.loss,
                          !.train_op = Some([minimizes |-> Get(cm.loss)])]
      ELSE IF m = EVAL
      THEN [absent EXCEPT
              !.loss = cm.loss,
              !.eval_metrics =
                 Some(MetricFn(Get(cm.per_example_loss), Get(labels),
                               Get(labels_mask), cm.pred))]
      ELSE [absent EXCEPT !.predictions = Some([pred |-> cm.pred])]

(* One call of model_fn(features, labels, mode, params): it returns the    *)
(* output spec, or _create_model raises and nothing after it is run.       *)
ModelFn(m, f, e) ==
  \E labels \in {ModelLabels(builder, m, f)},
     labels_mask \in {ModelLabelsMask(m, f)} :
  \E cm \in {CreateModel(builder, m, f.segment_ids, labels, labels_mask, e)} :
      /\ mode' = m
      /\ features' = f
      /\ external' = e
      /\ graph' = [labels |-> labels,
                   labels_mask |-> labels_mask,
                   is_training |-> cm.is_training,
                   decoder |-> cm.decoder,
                   dropout |-> cm.dropout,
                   loss_scope |-> cm.loss_scope,
                   loss |-> cm.loss,
                   per_example_loss |-> cm.per_example_loss,
                   pred |-> cm.pred,
                   raised |-> cm.raised,
                   init_from_checkpoint |->
                     (/\ cm.raised = None
                      /\ Truthy(builder.init_checkpoint)
                      /\ ~builder.use_tpu)]
      /\ BASE_PARAMS' = cm.base_params
      /\ output_spec' = IF cm.raised # None THEN None
                        ELSE OutputSpec(builder, m, cm, labels, labels_mask)
      /\ UNCHANGED <<ctor_args, builder, batch_size, returned>>

---------------------------------------------------------------------------
(* Bounds of the model.                                                    *)

NumTags == 3      \* size of the tag vocabulary (KEEP, DELETE, ADD, ...)
MaxIds == 2       \* longest keep / delete id list
MaxLoss == 2      \* largest per-token cross-entropy value
MaxTokens == 3    \* largest batch_size * max_seq_length of a batch
MaxLayers == 2    \* largest decoder_num_hidden_layers
MaxCalls == 2     \* direct _get_decoder_params calls in a behaviour

---------------------------------------------------------------------------
(* LaserTaggerConfig: the decoder fields and their defaults.               *)

DecoderNumHiddenLayers == 1
DecoderHiddenSize == 768
DecoderNumAttentionHeads == 4
DecoderFilterSize == 3072

LaserTaggerConfig(use_t2t_decoder, decoder_num_hidden_layers) ==
  [use_t2t_decoder |-> use_t2t_decoder,
   decoder_num_hidden_layers |-> decoder_num_hidden_layers,
   decoder_hidden_size |-> DecoderHiddenSize,
   decoder_num_attention_heads |-> DecoderNumAttentionHeads,
   decoder_filter_size |-> DecoderFilterSize]

(* model_params.BASE_PARAMS before any call: the keys _get_decoder_params  *)
(* sets hold the library's own values.                                     *)
ParamKeys ==
  {"num_hidden_layers", "hidden_size", "num_heads", "filter_size",
   "vocab_size", "use_tpu", "max_length", "extra_decode_length"}
LibraryParams == [k \in ParamKeys |-> "library value"]

---------------------------------------------------------------------------
(* Inputs.                                                                 *)

Tensor(B, S, D) == [1..B -> [1..S -> D]]

(* Non-decreasing id lists of length <= MaxIds over the tag ids.           *)
IdLists(num_tags) ==
  UNION {{l \in [1..n -> 0..(num_tags - 1)] :
            \A i \in 1..(n - 1) : l[i] <= l[i + 1]} : n \in 0..MaxIds}

(* delete_tags: 1 at the ids of delete_tags_ids, 0 elsewhere.              *)
DeleteIndicator(num_tags, ids) ==
  [v \in 1..num_tags |->
     IF \E i \in DOMAIN ids : ids[i] = v - 1 THEN 1 ELSE 0]

(* Logit rows with a single 1 at index k (from 0); k = V is the zero row.  *)
UnitRow(V, k) == [v \in 1..V |-> IF v = k + 1 THEN 1 ELSE 0]

VocabSize(b) ==
  IF b.config.use_t2t_decoder THEN b.num_tags + DecoderOffset ELSE b.num_tags

(* The Estimator builds one graph per train / evaluate / predict run and   *)
(* calls model_fn once for it: a behaviour is one such run.                *)
(* The calls of model_fn in mode m on builder b with batch size B whose    *)
(* per-token values are drawn from the sets of dom.                        *)
Calls(b, B, m, dom) ==
  LET S == b.max_seq_length
      feats == {[labels |-> l, labels_mask |-> k, segment_ids |-> g] :
                  l \in Tensor(B, S, dom.labels),
                  k \in Tensor(B, S, dom.masks),
                  g \in Tensor(B, S, dom.segments)}
      exts ==
        IF m # PREDICT
        THEN {[logits |-> Some(r), cross_entropy |-> Some(c),
               outputs |-> None] :
                r \in Tensor(B, S, dom.rows), c \in Tensor(B, S, dom.losses)}
        ELSE IF b.config.use_t2t_decoder
        THEN {[logits |-> None, cross_entropy |-> None, outputs |-> Some(d)] :
                d \in Tensor(B, S, dom.decoded)}
        ELSE {[logits |-> Some(r), cross_entropy |-> None, outputs |-> None] :
                r \in Tensor(B, S, dom.rows)}
  IN  {[features |-> f, external |-> e] : f \in feats, e \in exts}

Train(dom) ==
  /\ mode = NoCall
  /\ \E x \in Calls(builder, batch_size, TRAIN, dom) :
       ModelFn(TRAIN, x.features, x.external)

Eval(dom) ==
  /\ mode = NoCall
  /\ \E x \in Calls(builder, batch_size, EVAL, dom) :
       ModelFn(EVAL, x.features, x.external)

Predict(dom) ==
  /\ mode = NoCall
  /\ \E x \in Calls(builder, batch_size, PREDICT, dom) :
       ModelFn(PREDICT, x.features, x.external)

(* A direct call of _get_decoder_params whose result the caller keeps.     *)
DecoderParams ==
  \E layers \in 1..MaxLayers, use_tpu \in BOOLEAN,
     max_seq_length \in 1..MaxTokens, num_tags \in 1..NumTags :
    LET config == LaserTaggerConfig(TRUE, layers)
        vocab == num_tags + DecoderOffset
        call == GetDecoderParams(config, use_tpu, max_seq_length, vocab)
    IN  /\ Len(returned) < MaxCalls
        /\ BASE_PARAMS' = call.base_params
        /\ returned' = Append(returned,
                              [config |-> config, use_tpu |-> use_tpu,
                               max_seq_length |-> max_seq_length,
                               output_vocab_size |-> vocab,
                               result |-> call.result])
        /\ UNCHANGED <<ctor_args, builder, batch_size, mode, features,
                       external, graph, output_spec>>

---------------------------------------------------------------------------
(* Constructor arguments.                                                  *)

(* The vocabulary KEEP = 0, DELETE = 1, ADD = 2..num_tags-1.               *)
StandardArgs(use_t2t_decoder, num_tags, max_seq_length, weights) ==
  [config |-> LaserTaggerConfig(use_t2t_decoder, DecoderNumHiddenLayers),
   num_tags |-> num_tags,
   init_checkpoint |-> None,
   use_tpu |-> FALSE,
   max_seq_length |-> max_seq_length,
   verb_deletion_loss_weight |-> 0,
   verb_tags |-> None,
   delete_tags |-> PyList(DeleteIndicator(num_tags, <<1>>)),
   relative_loss_weight |-> weights,
   smallest_add_tag |-> 2,
   delete_tags_ids |-> <<1>>,
   keep_tags_ids |-> <<0>>]

Constructed(Args, Batches) ==
  /\ ctor_args \in Args
  /\ builder = ModelFnBuilder(ctor_args)
  /\ batch_size \in Batches
  /\ mode = NoCall
  /\ features = None
  /\ external = None
  /\ graph = None
  /\ output_spec = None
  /\ BASE_PARAMS = LibraryParams
  /\ returned = <<>>

---------------------------------------------------------------------------
(* Spec: every mode, both decoder settings, checkpoint and TPU settings,   *)
(* the verb-deletion step on and off; one example of one token.            *)

Weights == {-1, 1, 2}
ExampleWeights == <<2, 1, 3>>
CheckpointPath == "bert_model.ckpt"

SpecArgs ==
  {[StandardArgs(t, NumTags, 1, w) EXCEPT
      !.init_checkpoint = c, !.use_tpu = u,
      !.verb_tags = v[1], !.verb_deletion_loss_weight = v[2],
      !.delete_tags = d] :
     t \in BOOLEAN, w \in {<<1, 1, 1>>, ExampleWeights},
     c \in {None, Some(""), Some(CheckpointPath)}, u \in BOOLEAN,
     v \in {<<None, 0>>, <<Some(<<1>>), 1>>},
     d \in {PyList(DeleteIndicator(NumTags, <<1>>)),
            NdArray(DeleteIndicator(NumTags, <<1>>))}}

SpecDom ==
  [labels |-> 0..(builder.num_tags - 1),
   masks |-> {0, 1},
   segments |-> IF builder.verb_tags = None THEN {0} ELSE {0, 1},
   rows |-> {UnitRow(VocabSize(builder), k) : k \in 0..VocabSize(builder)},
   losses |-> 1..MaxLoss,
   decoded |-> 0..(VocabSize(builder) - 1)]

Init == Constructed(SpecArgs, {1})
Next == Train(SpecDom) \/ Eval(SpecDom) \/ Predict(SpecDom)
Spec == Init /\ [][Next]_vars

---------------------------------------------------------------------------
(* SpecLoss: the edit-category weights.  Three tags; every weight triple,  *)
(* threshold and keep / delete id list, both decoder settings; one example *)
(* of one valid token; and the configuration of the documented example.    *)

LossArgs ==
  {[StandardArgs(t, 3, 1, w) EXCEPT
      !.smallest_add_tag = a, !.keep_tags_ids = k, !.delete_tags_ids = d,
      !.delete_tags = PyList(DeleteIndicator(3, d))] :
     t \in BOOLEAN, w \in Weights \X Weights \X Weights,
     a \in 0..2, k \in IdLists(3), d \in IdLists(3)}

(* num_tags = 5, smallest_add_tag = 2, delete [1], keep [0], weights       *)
(* (2, 1, 3), no verb-deletion step, no decoder.                          *)
ExampleArgs == StandardArgs(FALSE, 5, 1, ExampleWeights)

LossDom ==
  [labels |-> 0..(builder.num_tags - 1),
   masks |-> {1},
   segments |-> {0},
   rows |-> {UnitRow(VocabSize(builder), VocabSize(builder) - 1)},
   losses |-> 1..MaxLoss,
   decoded |-> {VocabSize(builder) - 1}]

InitLoss == Constructed(LossArgs \cup {ExampleArgs}, {1})
NextLoss == Train(LossDom) \/ Eval(LossDom) \/ Predict(LossDom)
SpecLoss == InitLoss /\ [][NextLoss]_vars

---------------------------------------------------------------------------
(* SpecBatch: batches of several examples and several positions, with a    *)
(* two-tag vocabulary; labels, masks and predictions vary freely.          *)

BatchShapes ==
  {sh \in (1..MaxTokens) \X (1..MaxTokens) : sh[1] * sh[2] <= MaxTokens}

BatchArgs ==
  {StandardArgs(t, 2, S, ExampleWeights) : t \in BOOLEAN, S \in 1..MaxTokens}

TopRows(b) ==
  {UnitRow(VocabSize(b), VocabSize(b) - j) : j \in 1..b.num_tags}

EvalDom ==
  [labels |-> 0..(builder.num_tags - 1),
   masks |-> {0, 1},
   segments |-> {0},
   rows |-> TopRows(builder),
   losses |-> {1},
   decoded |-> {VocabSize(builder) - 1}]

BatchDom ==
  [EvalDom EXCEPT !.rows = {UnitRow(VocabSize(builder), 0)},
                  !.losses = 1..MaxLoss]

InitBatch ==
  /\ Constructed(BatchArgs, 1..MaxTokens)
  /\ <<batch_size, builder.max_seq_length>> \in BatchShapes

NextEval == Train(EvalDom) \/ Eval(EvalDom) \/ Predict(EvalDom)
SpecEval == InitBatch /\ [][NextEval]_vars

NextBatch == Train(BatchDom) \/ Eval(BatchDom) \/ Predict(BatchDom)
SpecBatch == InitBatch /\ [][NextBatch]_vars

---------------------------------------------------------------------------
(* SpecParams: direct calls of _get_decoder_params.                        *)

InitParams == Constructed({StandardArgs(TRUE, NumTags, 1, ExampleWeights)}, {1})
NextParams == DecoderParams
SpecParams == InitParams /\ [][NextParams]_vars

---------------------------------------------------------------------------
(* Properties.                                                             *)

Returned == mode # NoCall /\ graph.raised = None
LossComputed == mode \in {TRAIN, EVAL} /\ Returned
Scope == Get(graph.loss_scope)
UseDecoder == builder.config.use_t2t_decoder
Positions == {<<i, s>> : i \in 1..batch_size, s \in 1..builder.max_seq_length}

(* Number of entries of ids equal to l.                                    *)
Count(ids, l) == Cardinality({i \in DOMAIN ids : ids[i] = l})

(* 1 + (w - 1) * k                                                         *)
Factor(w, k) == 1 + (w - 1) * k

(* The float x times the integer k.                                        *)
Times(x, k) == Float(x.n * k, x.d)

(* C1: in the documented example (5 tags, threshold 2, delete [1], keep    *)
(* [0], weights (2, 1, 3), no verb-deletion step, no decoder), one token   *)
(* with label 1 and labels_mask 1 has per_example_loss = 3 * L, L being    *)
(* its base cross-entropy.                                                 *)
C1_ExampleLossIsTripled ==
  (/\ ctor_args = ExampleArgs
   /\ LossComputed
   /\ features.labels = <<<<1>>>>
   /\ features.labels_mask = <<<<1>>>>)
  => Get(graph.per_example_loss)[1] = Cast(3 * Get(external.cross_entropy)[1][1])

(* C2: with the decoder, in TRAIN and EVAL the labels given to the decoder *)
(* and to the loss are the raw labels plus 2, and in PREDICT the reported  *)
(* 'pred' is the decoded id minus 2; without the decoder labels are passed *)
(* as they are and predictions are the arg-max of the logits.              *)
C2_OffsetRoundTrip ==
  Returned =>
    /\ (UseDecoder /\ LossComputed) =>
         /\ \A p \in Positions :
              Get(graph.labels)[p[1]][p[2]] = features.labels[p[1]][p[2]] + 2
         /\ Get(graph.decoder).targets = graph.labels
         /\ Scope.labels = Get(graph.labels)
    /\ (UseDecoder /\ mode = PREDICT) =>
         \A p \in Positions :
           Get(output_spec.predictions).pred[p[1]][p[2]]
             = Get(external.outputs)[p[1]][p[2]] - 2
    /\ (~UseDecoder /\ LossComputed) =>
         /\ graph.labels = Some(features.labels)
         /\ Scope.labels = features.labels
    /\ (~UseDecoder) =>
         \A p \in Positions :
           graph.pred[p[1]][p[2]] = ArgMax(Get(external.logits)[p[1]][p[2]])

C2_Witness ==
  /\ UseDecoder
  /\ mode = PREDICT
  /\ Get(external.outputs)[1][1] = 3
  /\ Get(output_spec.predictions).pred[1][1] = 1

(* C3: in EVAL an example scores 1 exactly when prediction and label agree *)
(* at every position whose labels_mask is set, and 0 otherwise.            *)
C3_ExactMatchAccuracy ==
  (mode = EVAL /\ Returned) =>
    \A i \in 1..batch_size :
      LET score == Get(output_spec.eval_metrics).accuracy[i]
          match == \A s \in 1..builder.max_seq_length :
                     features.labels_mask[i][s] # 0 =>
                       graph.pred[i][s] = Get(graph.labels)[i][s]
      IN  /\ score \in {Cast(0), Cast(1)}
          /\ score = Cast(1) <=> match

C3_Witness ==
  /\ mode = EVAL
  /\ builder.max_seq_length >= 2
  /\ features.labels_mask[1] [1] = 1
  /\ features.labels_mask[1][2] = 0
  /\ graph.pred[1][1] = Get(graph.labels)[1][1]
  /\ graph.pred[1][2] # Get(graph.labels)[1][2]
  /\ Get(output_spec.eval_metrics).accuracy[1] = Cast(1)

(* The one token of a single-token batch.                                  *)
Label == Get(graph.labels)[1][1]
RawLabel == features.labels[1][1]
Base == Get(external.cross_entropy)[1][1]
AddHit == IF Label <= builder.smallest_add_tags_ids THEN 1 ELSE 0

NegativeWeight ==
  \E j \in 1..3 : ctor_args.relative_loss_weight[j] < 0

(* C4 as stated: a builder given a negative weight never yields a loss.    *)
C4_NegativeWeightRejected ==
  NegativeWeight => ~(LossComputed /\ graph.loss # None)

(* C4 as amended: a negative weight is accepted.  The builder stores the   *)
(* three weights as given, and the loss is computed with them: each step   *)
(* whose weight is negative multiplies the loss by 1 + (w - 1) * mask.     *)
C4_NegativeWeightUsed ==
  NegativeWeight =>
    /\ <<builder.add_weight, builder.keep_weight, builder.delete_weight>>
         = ctor_args.relative_loss_weight
    /\ LossComputed =>
         /\ graph.loss # None
         /\ builder.add_weight < 0 =>
              Scope.after_add[1][1]
                = Times(Scope.after_verb[1][1],
                        Factor(builder.add_weight, AddHit))
         /\ builder.keep_weight < 0 =>
              Scope.after_keep[1][1]
                = Times(Scope.after_add[1][1],
                        Factor(builder.keep_weight,
                               Count(builder.keep_tags_ids, Label)))
         /\ builder.delete_weight < 0 =>
              Scope.after_delete[1][1]
                = Times(Scope.after_keep[1][1],
                        Factor(builder.delete_weight,
                               Count(builder.delete_tags_ids, Label)))

C4_Witness ==
  /\ builder.delete_weight = -1
  /\ builder.add_weight = 1
  /\ builder.keep_weight = 1
  /\ mode = TRAIN
  /\ Count(builder.delete_tags_ids, Label) = 1
  /\ Get(graph.loss) = Cast(-1 * Base)

(* C5: a reweighting step whose weight is 1 returns the loss it was given, *)
(* which is also what loss * (1 + (weight - 1) * mask) gives for weight 1. *)
C5_WeightOneIsNoOp ==
  LossComputed =>
    /\ builder.add_weight = 1 =>
         /\ Scope.after_add = Scope.after_verb
         /\ Scope.after_add[1][1]
              = Times(Scope.after_verb[1][1], Factor(1, AddHit))
    /\ builder.keep_weight = 1 =>
         /\ Scope.after_keep = Scope.after_add
         /\ Scope.after_keep[1][1]
              = Times(Scope.after_add[1][1],
                      Factor(1, Count(builder.keep_tags_ids, Label)))
    /\ builder.delete_weight = 1 =>
         /\ Scope.after_delete = Scope.after_keep
         /\ Scope.after_delete[1][1]
              = Times(Scope.after_keep[1][1],
                      Factor(1, Count(builder.delete_tags_ids, Label)))

C5_Witness ==
  /\ mode = TRAIN
  /\ builder.keep_weight = 1
  /\ builder.add_weight = 2
  /\ builder.delete_weight = 2
  /\ Count(builder.keep_tags_ids, Label) = 2
  /\ Scope.after_keep = Scope.after_add

(* C7: without the verb-deletion step the weighted loss of a token is      *)
(* b * (1 + (add-1)*A) * (1 + (keep-1)*K) * (1 + (delete-1)*D), with       *)
(* A = 1 iff label <= stored threshold, K and D the numbers of entries of  *)
(* the stored keep and delete lists equal to the label.                    *)
C7_WeightsCompound ==
  (LossComputed /\ ~VerbDeletionEnabled(builder)) =>
    Scope.after_delete[1][1]
      = Cast(Base * Factor(builder.add_weight, AddHit)
                  * Factor(builder.keep_weight,
                           Count(builder.keep_tags_ids, Label))
                  * Factor(builder.delete_weight,
                           Count(builder.delete_tags_ids, Label)))

C7_Witness ==
  /\ mode = EVAL
  /\ builder.add_weight = 2 /\ builder.keep_weight = 2
  /\ builder.delete_weight = 2
  /\ AddHit = 1
  /\ Count(builder.keep_tags_ids, Label) = 1
  /\ Count(builder.delete_tags_ids, Label) = 1
  /\ Scope.after_delete[1][1] = Cast(8 * Base)

(* C8 as stated: an id occurring m times in the keep (delete) list given   *)
(* to the constructor scales a token labelled with it by 1 + (w - 1) * m   *)
(* in that step, with and without the decoder.                             *)
C8_DuplicatesCountEverywhere ==
  LossComputed =>
    /\ builder.keep_weight # 1 =>
         Scope.after_keep[1][1]
           = Times(Scope.after_add[1][1],
                   Factor(builder.keep_weight,
                          Count(ctor_args.keep_tags_ids, RawLabel)))
    /\ builder.delete_weight # 1 =>
         Scope.after_delete[1][1]
           = Times(Scope.after_keep[1][1],
                   Factor(builder.delete_weight,
                          Count(ctor_args.delete_tags_ids, RawLabel)))

(* The multiplicity that reaches the loss: np.unique removes duplicates    *)
(* when the decoder is used.                                               *)
Multiplicity(ids, l) ==
  IF UseDecoder /\ Count(ids, l) > 1 THEN 1 ELSE Count(ids, l)

(* C8 as amended: without the decoder the factor is 1 + (w - 1) * m; with  *)
(* the decoder the lists are deduplicated at construction and the factor   *)
(* is 1 + (w - 1) for every m >= 1.                                        *)
C8_DuplicatesCountWithoutDecoder ==
  LossComputed =>
    /\ builder.keep_weight # 1 =>
         Scope.after_keep[1][1]
           = Times(Scope.after_add[1][1],
                   Factor(builder.keep_weight,
                          Multiplicity(ctor_args.keep_tags_ids, RawLabel)))
    /\ builder.delete_weight # 1 =>
         Scope.after_delete[1][1]
           = Times(Scope.after_keep[1][1],
                   Factor(builder.delete_weight,
                          Multiplicity(ctor_args.delete_tags_ids, RawLabel)))

C8_Witness ==
  /\ mode = TRAIN
  /\ ~UseDecoder
  /\ builder.keep_weight = 2
  /\ Count(ctor_args.keep_tags_ids, RawLabel) = 2
  /\ Scope.after_keep[1][1] = Times(Scope.after_add[1][1], 3)

(* C9: the loss is computed exactly when mode # PREDICT.  In PREDICT no    *)
(* labels or labels_mask are taken from the features (the decoder gets no  *)
(* target), there is no loss, and the output holds only the predictions;   *)
(* TRAIN returns the loss and a training op, EVAL the loss and the         *)
(* metrics.  Dropout is applied only in TRAIN without the decoder.  The    *)
(* contents of the output are those of a call that returns one; a call     *)
(* that raises did so inside the loss computation, so not in PREDICT.      *)
C9_ModeGating ==
  /\ mode # NoCall =>
       /\ graph.loss_scope # None <=> mode # PREDICT
       /\ graph.raised # None => mode # PREDICT /\ Raises(Scope)
       /\ graph.dropout <=> (mode = TRAIN /\ ~UseDecoder)
  /\ Returned =>
    /\ mode # PREDICT => ~Raises(Scope)
    /\ mode = PREDICT =>
         /\ graph.labels = None /\ graph.labels_mask = None
         /\ UseDecoder => Get(graph.decoder).targets = None
         /\ graph.loss = None /\ graph.per_example_loss = None
         /\ output_spec.loss = None /\ output_spec.train_op = None
         /\ output_spec.eval_metrics = None
         /\ output_spec.predictions = Some([pred |-> graph.pred])
    /\ mode = TRAIN =>
         /\ output_spec.loss = graph.loss /\ graph.loss # None
         /\ output_spec.train_op # None
         /\ output_spec.eval_metrics = None /\ output_spec.predictions = None
    /\ mode = EVAL =>
         /\ output_spec.loss = graph.loss /\ graph.loss # None
         /\ output_spec.eval_metrics # None
         /\ output_spec.train_op = None /\ output_spec.predictions = None

C9_Witness ==
  /\ mode = PREDICT
  /\ UseDecoder
  /\ features.labels = <<<<1>>>>
  /\ graph.labels = None
  /\ output_spec.predictions # None

(* C10: per_example_loss of an example is the sum of the weighted loss of  *)
(* all its positions, masked or not, divided by the number of positions    *)
(* whose labels_mask is 1; the scalar loss is the mean over the examples.  *)
C10_PerExampleLoss ==
  LossComputed =>
    /\ \A i \in 1..batch_size :
         LET S == builder.max_seq_length
             total == ReduceSum(Scope.after_delete[i])
             valid == Cardinality({s \in 1..S : features.labels_mask[i][s] = 1})
             per == Get(graph.per_example_loss)[i]
         IN  /\ Get(external.cross_entropy)[i] \in [1..S -> 1..MaxLoss]
             /\ total.d = 1
             /\ valid > 0 => per.n * valid = total.n * per.d /\ per.d > 0
             /\ valid = 0 => per = [n |-> Sign(total.n), d |-> 0]
    /\ Times(Get(graph.loss), batch_size)
         = ReduceSum(Get(graph.per_example_loss))

C10_Witness ==
  /\ mode = TRAIN
  /\ ~UseDecoder
  /\ batch_size = 1
  /\ features.labels = <<<<0, 0>>>>
  /\ features.labels_mask = <<<<1, 0>>>>
  /\ Get(external.cross_entropy) = <<<<1, 2>>>>
  /\ Scope.after_delete = <<<<Cast(2), Cast(4)>>>>
  /\ Get(graph.per_example_loss)[1] = Cast(6)

(* C6: the parameter set an earlier _get_decoder_params call returned      *)
(* still holds that call's own values after every later call.              *)
C6_EarlierResultKeepsItsValues ==
  \A i \in DOMAIN returned :
    LET r == returned[i]
        params == Deref(r.result)
    IN  /\ params.vocab_size = r.output_vocab_size
        /\ params.max_length = r.max_seq_length
        /\ params.use_tpu = r.use_tpu
        /\ params.hidden_size = r.config.decoder_hidden_size
        /\ params.num_heads = r.config.decoder_num_attention_heads
        /\ params.filter_size = r.config.decoder_filter_size
        /\ params.num_hidden_layers = r.config.decoder_num_hidden_layers

====
